---- MODULE Spec2Model ----
(***************************************************************************)
(* The certificate inventory of orchetrust: the sqlite-backed store        *)
(* (storage/db.py) as it is driven by independent invocations of the tool. *)
(* Every invocation owns a connection; upsert_many runs its records one    *)
(* statement pair at a time inside one transaction, purge and list are one *)
(* statement each.                                                         *)
(* On top of the store: the alert run of cli.py (list, sort, output, Slack  *)
(* message), the filesystem discoverer (discovery/filesystem.py) and the    *)
(* three computations of days_left.                                         *)
(***************************************************************************)
EXTENDS Integers, Sequences, FiniteSets, TLC

\* ------------------------------------------------------------------ bounds
MaxTicks == 1          \* the clock advances at most this many half days
MaxBatch == 2          \* records per upsert_many call
MaxId    == 2          \* rows ever inserted (AUTOINCREMENT ids handed out)
MaxRows  == 23         \* rows of the inventories an alert run is started on
MaxFiles == 3          \* candidate files under the scanned roots

\* --------------------------------------------------------------- constants
SecondsPerDay == 86400
\* rows[:20] and len(rows) > 20 in the Slack message
AlertCap == 20
\* the sort key of a row without days_left
Unparsed == 999999
\* the default of --threshold
DefaultThreshold == 30
HalfDay == SecondsPerDay \div 2

Procs  == {"p1", "p2"}
NoProc == "none"

\* A dict key that is missing (dict.get then yields None) / an SQL NULL.
Absent == "<absent>"
Null   == "<NULL>"

\* ------------------------------------------------------- timestamps as text
\* An ISO-8601 text is modelled by what datetime.fromisoformat makes of it:
\*   aware  - parses, carries the offset +00:00  naive - parses, no offset
\*   east   - parses, carries the offset +12:00
\*   junk   - any other non-empty text          empty - ""      null - None/NULL
\* and secs is the instant it denotes (for naive: the date and time it spells).
TS(k, s) == [kind |-> k, secs |-> s]
NoTime   == TS("null", 0)

\* datetime.now(timezone.utc).isoformat()
utcnow_iso(c) == TS("aware", c)

\* --------------------------------------------------------- discovery records
\* a record without the "sans" key
NoSans == <<Absent>>

Rec(fp, src, path, loc, subj, iss, nb, na, sans, fs) ==
    [fingerprint |-> fp, source |-> src, path |-> path, location |-> loc,
     subject |-> subj, issuer |-> iss, not_before |-> nb, not_after |-> na,
     sans |-> sans, first_seen |-> fs]

\* a certificate file as scan_filesystem reports it
CertA  == Rec("fa", "filesystem", "/a", Absent, "CN=a", "CN=ca",
              TS("aware", 0), TS("aware", 3 * HalfDay), <<"a.test">>, NoTime)
\* the same identity reported again with other column values and stray keys
CertA2 == Rec("fa", "filesystem", Absent, "/a", "CN=a2", "CN=ca2",
              TS("naive", 0), TS("naive", SecondsPerDay), <<>>, TS("aware", 7))
\* another certificate at the same path (rotation)
CertB  == Rec("fb", "filesystem", "/a", "/ignored", Absent, "CN=ca",
              TS("aware", 0), TS("aware", 0), <<"b.test", "c.test">>, NoTime)
\* a record of another source without any location and without expiry
CertC  == Rec("fa", "aws", Absent, Absent, "CN=a", Absent,
              NoTime, NoTime, NoSans, NoTime)
\* a record whose expiry text is not a timestamp
CertD  == Rec("fb", "aws", "", "arn:d", "CN=d", "CN=ca",
              TS("empty", 0), TS("junk", 0), <<>>, NoTime)
\* the certificate of CertB reported with its expiry in another time zone
CertE  == [CertB EXCEPT !.not_after = TS("east", 2 * HalfDay)]
\* a record that lacks a required key
NoFp   == [CertB EXCEPT !.fingerprint = Absent]

\* what the overlapping invocations are given
Records == {CertA2, CertC, NoFp}
\* what a single caller is given
AllRecords == {CertA, CertA2, CertB, CertD, CertE, NoFp}

\* ------------------------------------------------------------ the sqlite table
\* dict.get(key): a missing key reads as None, which sqlite stores as NULL
Get(v) == IF v = Absent THEN Null ELSE v

\* Python's `a or b` on str | None
Or(a, b) == IF a \in {Null, ""} THEN b ELSE a

\* json.dumps(r.get("sans", []) or [])
JsonDumps(l) == [json |-> l]
SansJson(r) == JsonDumps(IF r.sans = NoSans THEN <<>> ELSE r.sans)

\* the locator without the final `or ""`: a record without one yields NULL
LocationNoDefault(r) == Or(Get(r.path), Get(r.location))

\* r.get("path") or r.get("location") or ""
Location(r) == Or(Or(Get(r.path), Get(r.location)), "")

\* r["fingerprint"], r["source"] raise KeyError on a record without the key
HasKeys(r) == r.fingerprint # Absent /\ r.source # Absent

\* the statement parameters built from one record
Data(r, now) ==
    [fingerprint |-> r.fingerprint, source |-> r.source, location |-> Location(r),
     subject |-> Get(r.subject), issuer |-> Get(r.issuer),
     not_before |-> r.not_before, not_after |-> r.not_after,
     sans_json |-> SansJson(r), ts |-> now]

\* a WHERE clause that leaves the fingerprint out
MatchesPlace(row, d) ==
    /\ row.source = d.source
    /\ row.location # Null /\ d.location # Null
    /\ row.location = d.location

\* WHERE fingerprint=:fingerprint AND source=:source AND location=:location
\* (a comparison with NULL is never true)
Matches(row, d) ==
    /\ row.fingerprint = d.fingerprint
    /\ row.source = d.source
    /\ row.location # Null /\ d.location # Null
    /\ row.location = d.location

\* an UPDATE whose SET list lacks issuer
UpdateRowStale(row, d) ==
    [row EXCEPT !.subject = d.subject,
                !.not_before = d.not_before, !.not_after = d.not_after,
                !.sans_json = d.sans_json, !.last_seen = d.ts]

\* an UPDATE that also stamps first_seen
UpdateRowTouch(row, d) ==
    [row EXCEPT !.subject = d.subject, !.issuer = d.issuer,
                !.not_before = d.not_before, !.not_after = d.not_after,
                !.sans_json = d.sans_json, !.last_seen = d.ts, !.first_seen = d.ts]

\* UPDATE ... SET subject, issuer, not_before, not_after, sans_json, last_seen
UpdateRow(row, d) ==
    [row EXCEPT !.subject = d.subject, !.issuer = d.issuer,
                !.not_before = d.not_before, !.not_after = d.not_after,
                !.sans_json = d.sans_json, !.last_seen = d.ts]

\* the row an INSERT writes; AUTOINCREMENT hands out the next id
NewRow(id, d) ==
    [id |-> id, fingerprint |-> d.fingerprint, source |-> d.source,
     location |-> d.location, subject |-> d.subject, issuer |-> d.issuer,
     not_before |-> d.not_before, not_after |-> d.not_after,
     sans_json |-> d.sans_json, first_seen |-> d.ts, last_seen |-> d.ts]

\* INSERT OR IGNORE: a row that breaks NOT NULL or UNIQUE(fingerprint, source,
\* location) is skipped without an error
InsertOrIgnore(st, d) ==
    IF \/ d.fingerprint = Null \/ d.source = Null
       \/ \E row \in st.tab : Matches(row, d)
    THEN st
    ELSE [tab |-> st.tab \cup {NewRow(st.seq + 1, d)}, seq |-> st.seq + 1]

\* a loop body that always runs a plain INSERT on a table without the UNIQUE
\* constraint
UpsertOneInsert(st, d) ==
    [tab |-> st.tab \cup {NewRow(st.seq + 1, d)}, seq |-> st.seq + 1]

\* one pass of the loop body: UPDATE, and INSERT when rowcount = 0
UpsertOne(st, d) ==
    LET hit == {row \in st.tab : Matches(row, d)}
    IN  IF hit # {}
        THEN [st EXCEPT !.tab = (st.tab \ hit) \cup {UpdateRow(row, d) : row \in hit}]
        ELSE InsertOrIgnore(st, d)

\* a counter that counts only the records that added a row
CountInserted(count, st, new) == IF new.seq > st.seq THEN count + 1 ELSE count

\* count += 1: every record that went through the loop body is counted, whether
\* its statements changed a row or not
Counted(count, st, new) == count + 1

\* `with self._conn:` leaves by commit on success and by rollback on an exception
Commit(committed, working)   == working
\* an exit that keeps what the statements wrote before the exception
RollbackKeeps(committed, working) == working
Rollback(committed, working) == committed

\* DELETE FROM cert_inventory [WHERE source = ?]; `if source:` takes None and ""
\* to the unfiltered statement
PurgeVictims(tab, source) ==
    IF source \in {Null, ""} THEN tab ELSE {row \in tab : row.source = source}

\* ------------------------------------------------------------------- state
VARIABLES
    clock,   \* the wall clock, in seconds
    db,      \* the committed table and its AUTOINCREMENT counter: [tab, seq]
    lock,    \* the invocation holding sqlite's write lock, or NoProc
    pc,      \* per invocation: "idle", "upsert" (inside the loop), "done"
    now,     \* upsert_many's `now`
    count,   \* upsert_many's `count`
    work,    \* the open transaction's view of the table
    arg,     \* the arguments of purge / list: [source, days]
    ret,     \* per invocation at "done": the outcome of its call
    log,     \* a single caller's record of what it passes to upsert_many
    run,     \* the options, locals and effects of an `alerts run` invocation
    scan,    \* the files under the scanned roots and scan_filesystem's progress
    expiry   \* one not_after and the days_left each of the three places gave it

vars == <<clock, db, lock, pc, now, count, work, arg, ret, log, run, scan, expiry>>

Empty == [tab |-> {}, seq |-> 0]

\* an optional int argument
NoDays   == [given |-> FALSE, v |-> 0]
Days(t)  == [given |-> TRUE, v |-> t]
NoArg    == [source |-> Null, days |-> NoDays]

\* the outcome of a call: the value returned (n, rows), or the exception
\* raised and the number of records processed before it (n)
NoRet == [op |-> "none", status |-> "ok", n |-> 0, rows |-> <<>>]
Ok(op, n, rows)   == [op |-> op, status |-> "ok", n |-> n, rows |-> rows]
Raised(op, ex, n) == [op |-> op, status |-> ex, n |-> n, rows |-> <<>>]

NoLog == [rows |-> <<>>, prev |-> <<>>, again |-> FALSE]

\* a days_left not computed yet, and one computed at clock reading c
NotYet == [done |-> FALSE, known |-> FALSE, v |-> 0, at |-> 0]
Gave(d, c) == [done |-> TRUE, known |-> d.known, v |-> d.v, at |-> c]
NoExpiry == [not_after |-> NoTime, discovered |-> NotYet, listed |-> NotYet,
             ensured |-> NotYet]

\* no files, no scan in progress
NoScan == [files |-> <<>>, pos |-> 0, results |-> <<>>]

\* no alert run in progress
NoRun ==
    [threshold |-> 0, source |-> Null, json_out |-> FALSE, send |-> FALSE,
     webhook |-> Null, listed |-> <<>>, rows |-> <<>>, shown |-> "none",
     calls |-> <<>>, logged |-> <<>>, exit |-> "none"]

Init ==
    /\ clock = 0
    /\ db = Empty
    /\ lock = NoProc
    /\ pc = [p \in Procs |-> "idle"]
    /\ now = [p \in Procs |-> utcnow_iso(0)]
    /\ count = [p \in Procs |-> 0]
    /\ work = [p \in Procs |-> Empty]
    /\ arg = [p \in Procs |-> NoArg]
    /\ ret = [p \in Procs |-> NoRet]
    /\ log = NoLog
    /\ run = NoRun
    /\ scan = NoScan
    /\ expiry = NoExpiry

\* time passes
Tick ==
    /\ clock < MaxTicks * HalfDay
    /\ clock' = clock + HalfDay
    /\ UNCHANGED <<db, lock, pc, now, count, work, arg, ret>>

\* a call returns or raises: its outcome is the caller's
Return(p, outcome) ==
    /\ pc' = [pc EXCEPT ![p] = "done"]
    /\ ret' = [ret EXCEPT ![p] = outcome]

\* the locals of upsert_many are gone when it returns or raises
Forget(p) ==
    /\ now' = [now EXCEPT ![p] = utcnow_iso(0)]
    /\ count' = [count EXCEPT ![p] = 0]
    /\ work' = [work EXCEPT ![p] = Empty]

\* upsert_many(rows): now = utcnow_iso(); count = 0
UpsertCall(p) ==
    /\ pc[p] \in {"idle", "done"}
    /\ pc' = [pc EXCEPT ![p] = "upsert"]
    /\ now' = [now EXCEPT ![p] = utcnow_iso(clock)]
    /\ count' = [count EXCEPT ![p] = 0]
    /\ ret' = [ret EXCEPT ![p] = NoRet]
    /\ arg' = [arg EXCEPT ![p] = NoArg]
    /\ UNCHANGED <<clock, db, lock, work>>

\* one pass of `for r in rows` over the next record r; the first statement
\* opens the transaction and takes the write lock
UpsertRecord(p, r) ==
    /\ pc[p] = "upsert"
    /\ count[p] < MaxBatch
    /\ HasKeys(r)
    /\ lock \in {NoProc, p}
    /\ LET st  == IF lock = p THEN work[p] ELSE db
           new == UpsertOne(st, Data(r, now[p]))
       IN  /\ new.seq <= MaxId
           /\ work' = [work EXCEPT ![p] = new]
           /\ count' = [count EXCEPT ![p] = Counted(count[p], st, new)]
    /\ lock' = p
    /\ UNCHANGED <<clock, db, pc, now, arg, ret>>

\* the first statement finds the database locked by another writer:
\* sqlite3.OperationalError leaves the with block
UpsertBusy(p, r) ==
    /\ pc[p] = "upsert"
    /\ count[p] < MaxBatch
    /\ HasKeys(r)
    /\ lock \notin {NoProc, p}
    /\ Return(p, Raised("upsert", "OperationalError", count[p]))
    /\ Forget(p)
    /\ UNCHANGED <<clock, db, lock, arg>>

\* r["fingerprint"] / r["source"] raises KeyError on the next record r: the
\* with block rolls back
UpsertRaise(p, r) ==
    /\ pc[p] = "upsert"
    /\ count[p] < MaxBatch
    /\ ~HasKeys(r)
    /\ db' = IF lock = p THEN Rollback(db, work[p]) ELSE db
    /\ lock' = IF lock = p THEN NoProc ELSE lock
    /\ Return(p, Raised("upsert", "KeyError", count[p]))
    /\ Forget(p)
    /\ UNCHANGED <<clock, arg>>

\* the loop ends: the with block commits, return count
UpsertReturn(p) ==
    /\ pc[p] = "upsert"
    /\ db' = IF lock = p THEN Commit(db, work[p]) ELSE db
    /\ lock' = IF lock = p THEN NoProc ELSE lock
    /\ Return(p, Ok("upsert", count[p], <<>>))
    /\ Forget(p)
    /\ UNCHANGED <<clock, arg>>

\* purge(source): the DELETE statement and the commit of its with block;
\* return cur.rowcount
Purge(p, source) ==
    /\ pc[p] = "idle"
    /\ lock = NoProc
    /\ LET gone == PurgeVictims(db.tab, source)
       IN  /\ db' = [db EXCEPT !.tab = db.tab \ gone]
           /\ Return(p, Ok("purge", Cardinality(gone), <<>>))
    /\ arg' = [arg EXCEPT ![p] = [source |-> source, days |-> NoDays]]
    /\ UNCHANGED <<clock, lock, now, count, work>>

\* the DELETE finds the database locked by a writer
PurgeBusy(p, source) ==
    /\ pc[p] = "idle"
    /\ lock # NoProc
    /\ Return(p, Raised("purge", "OperationalError", 0))
    /\ arg' = [arg EXCEPT ![p] = [source |-> source, days |-> NoDays]]
    /\ UNCHANGED <<clock, db, lock, now, count, work>>

\* ------------------------------------------------------------------ list
\* datetime.fromisoformat(text) returns a datetime (None and other text raise)
ParseOk(ts) == ts.kind \in {"aware", "east", "naive"}

\* a difference truncated toward zero
DaysLeftTruncated(ts, c) ==
    IF ts.secs - c >= 0 THEN (ts.secs - c) \div SecondsPerDay
    ELSE -((c - ts.secs) \div SecondsPerDay)

\* int((exp - now).total_seconds() // 86400), exp aware
DaysLeft(ts, c) == (ts.secs - c) \div SecondsPerDay

DL(v)   == [known |-> TRUE, v |-> v]
Unknown == [known |-> FALSE, v |-> 0]

\* sqlite's ordering of the not_after TEXT column: NULL first, then bytewise.
\* An ISO text spells the local date and time, then the offset: "" for naive,
\* "+00:00", "+12:00"
TextClass(ts) ==
    CASE ts.kind = "null"  -> 0
      [] ts.kind = "empty" -> 1
      [] ts.kind \in {"aware", "east", "naive"} -> 2
      [] OTHER -> 3
WallTime(ts) == IF ts.kind = "east" THEN ts.secs + HalfDay ELSE ts.secs
Suffix(ts) ==
    CASE ts.kind = "naive" -> 0
      [] ts.kind = "aware" -> 1
      [] OTHER -> 2
TextLeq(a, b) ==
    \/ TextClass(a) < TextClass(b)
    \/ /\ TextClass(a) = TextClass(b)
       /\ \/ TextClass(a) # 2
          \/ WallTime(a) < WallTime(b)
          \/ WallTime(a) = WallTime(b) /\ Suffix(a) <= Suffix(b)

\* ORDER BY not_after ASC: every order of the rows that is ascending (rows with
\* equal not_after come in an order SQL does not fix)
RECURSIVE OrderBy(_)
OrderBy(S) ==
    IF S = {} THEN {<<>>}
    ELSE UNION {{<<r>> \o s : s \in OrderBy(S \ {r})} :
                r \in {x \in S : \A y \in S : TextLeq(x.not_after, y.not_after)}}

\* `if source:` adds the WHERE clause
Selected(tab, source) ==
    IF source \in {Null, ""} THEN tab ELSE {row \in tab : row.source = source}

\* exp - now raises TypeError when exp has no offset; it is outside the try
ListRaises(tab, a) ==
    a.days.given /\ \E row \in Selected(tab, a.source) : row.not_after.kind = "naive"

\* the filter loop's verdict on one fetched row
Keep(row, a, c) ==
    \/ ~a.days.given
    \/ ParseOk(row.not_after) /\ DaysLeft(row.not_after, c) <= a.days.v

\* the dict list() returns for a row: days_left when filtering, sans decoded
Shown(row, a, c) ==
    [id |-> row.id, fingerprint |-> row.fingerprint, source |-> row.source,
     location |-> row.location, subject |-> row.subject, issuer |-> row.issuer,
     not_before |-> row.not_before, not_after |-> row.not_after,
     sans_json |-> row.sans_json, first_seen |-> row.first_seen,
     last_seen |-> row.last_seen,
     days_left |-> IF a.days.given THEN DL(DaysLeft(row.not_after, c)) ELSE Unknown,
     sans |-> row.sans_json.json]

RECURSIVE Filter(_, _, _)
Filter(s, a, c) ==
    IF s = <<>> THEN <<>>
    ELSE (IF Keep(Head(s), a, c) THEN <<Shown(Head(s), a, c)>> ELSE <<>>)
         \o Filter(Tail(s), a, c)

\* list(source, expiring_within_days): the SELECT, the in-Python filter and
\* the decoding of the SANs
ListOutcomes(tab, a, c) ==
    IF ListRaises(tab, a)
    THEN {Raised("list", "TypeError", 0)}
    ELSE {Ok("list", Len(Filter(s, a, c)), Filter(s, a, c)) :
              s \in OrderBy(Selected(tab, a.source))}

List(p, source, days) ==
    /\ pc[p] = "idle"
    /\ LET a == [source |-> source, days |-> days]
       IN  /\ arg' = [arg EXCEPT ![p] = a]
           /\ \E o \in ListOutcomes(db.tab, a, clock) : Return(p, o)
    /\ UNCHANGED <<clock, db, lock, now, count, work>>

Thresholds == {-1, 0}
DaysArgs   == {NoDays} \cup {Days(t) : t \in Thresholds}

\* the invocation ends; the next one starts from scratch
Exit(p) ==
    /\ pc[p] = "done"
    /\ pc' = [pc EXCEPT ![p] = "idle"]
    /\ ret' = [ret EXCEPT ![p] = NoRet]
    /\ arg' = [arg EXCEPT ![p] = NoArg]
    /\ UNCHANGED <<clock, db, lock, now, count, work>>

SourceArgs == {Null, "", "filesystem"}

\* ------------------------------------------- overlapping invocations of the tool
Next ==
    \/ Tick /\ UNCHANGED <<log, run, scan, expiry>>
    \/ \E p \in Procs : UpsertCall(p) /\ UNCHANGED <<log, run, scan, expiry>>
    \/ \E p \in Procs, r \in Records : UpsertRecord(p, r) /\ UNCHANGED <<log, run, scan, expiry>>
    \/ \E p \in Procs, r \in Records : UpsertBusy(p, r) /\ UNCHANGED <<log, run, scan, expiry>>
    \/ \E p \in Procs, r \in Records : UpsertRaise(p, r) /\ UNCHANGED <<log, run, scan, expiry>>
    \/ \E p \in Procs : UpsertReturn(p) /\ UNCHANGED <<log, run, scan, expiry>>
    \/ \E p \in Procs, source \in {Null, "aws"} : Purge(p, source) /\ UNCHANGED <<log, run, scan, expiry>>
    \/ \E p \in Procs, source \in {Null, "aws"} : PurgeBusy(p, source) /\ UNCHANGED <<log, run, scan, expiry>>
    \/ \E p \in Procs : List(p, Null, NoDays) /\ UNCHANGED <<log, run, scan, expiry>>
    \/ \E p \in Procs : Exit(p) /\ UNCHANGED <<log, run, scan, expiry>>

Spec == Init /\ [][Next]_vars

\* ------------------------------------------------ one caller, one call at a time
Caller == "p1"

\* log: the records of the call in progress (rows); when the caller passes
\* upsert_many the list it passed to the call that has just returned, the
\* records of that call (prev, again)
LogCall  == log' = NoLog
LogAgain ==
    /\ ret[Caller].op = "upsert" /\ ret[Caller].status = "ok"
    /\ log' = [rows |-> <<>>, prev |-> log.rows, again |-> TRUE]
LogRecord(r) ==
    /\ log.again => Len(log.rows) < Len(log.prev) /\ r = log.prev[Len(log.rows) + 1]
    /\ log' = [log EXCEPT !.rows = Append(@, r)]
LogReturn ==
    /\ log.again => log.rows = log.prev
    /\ UNCHANGED log
LogReset == log' = NoLog

NextSeq ==
    \/ Tick /\ UNCHANGED <<log, run, scan, expiry>>
    \/ UpsertCall(Caller) /\ LogCall /\ UNCHANGED <<run, scan, expiry>>
    \/ UpsertCall(Caller) /\ LogAgain /\ UNCHANGED <<run, scan, expiry>>
    \/ \E r \in AllRecords : UpsertRecord(Caller, r) /\ LogRecord(r) /\ UNCHANGED <<run, scan, expiry>>
    \/ \E r \in AllRecords : UpsertRaise(Caller, r) /\ ~log.again /\ LogReset
           /\ UNCHANGED <<run, scan, expiry>>
    \/ UpsertReturn(Caller) /\ LogReturn /\ UNCHANGED <<run, scan, expiry>>
    \/ \E source \in SourceArgs : Purge(Caller, source) /\ UNCHANGED <<log, run, scan, expiry>>
    \/ \E source \in SourceArgs, days \in DaysArgs :
           List(Caller, source, days) /\ UNCHANGED <<log, run, scan, expiry>>
    \/ Exit(Caller) /\ LogReset /\ UNCHANGED <<run, scan, expiry>>

SpecSeq == Init /\ [][NextSeq]_vars

\* ------------------------------------------------------------ alerts run
\* iso_to_days_left(iso_dt) at clock c: None for None and "", for text that
\* fromisoformat rejects and for a naive datetime (exp - now raises TypeError,
\* caught by `except Exception`)
iso_to_days_left(ts, c) ==
    IF ts.kind \in {"aware", "east"}
    THEN DL((ts.secs - c) \div SecondsPerDay)
    ELSE Unknown

\* `if "days_left" not in r or r["days_left"] is None`
EnsureDaysLeft(r, c) ==
    IF r.days_left.known THEN r
    ELSE [r EXCEPT !.days_left = iso_to_days_left(r.not_after, c)]
Ensured(s, c) == [i \in 1..Len(s) |-> EnsureDaysLeft(s[i], c)]

\* Python's order of the strings `r.get("not_after") or ""`
PyClass(ts) == IF ts.kind \in {"null", "empty"} THEN 1 ELSE TextClass(ts)
PyTextLess(a, b) ==
    \/ PyClass(a) < PyClass(b)
    \/ /\ PyClass(a) = 2 /\ PyClass(b) = 2
       /\ \/ WallTime(a) < WallTime(b)
          \/ WallTime(a) = WallTime(b) /\ Suffix(a) < Suffix(b)

\* the sort key (days_left or 999999, not_after or ""), compared as tuples
KeyDays(r) == IF r.days_left.known THEN r.days_left.v ELSE Unparsed
KeyLess(x, y) ==
    \/ KeyDays(x) < KeyDays(y)
    \/ KeyDays(x) = KeyDays(y) /\ PyTextLess(x.not_after, y.not_after)

\* list.sort is stable: a row goes behind the rows whose key is not greater
RECURSIVE Insert(_, _)
Insert(x, s) ==
    IF s = <<>> THEN <<x>>
    ELSE IF KeyLess(x, Head(s)) THEN <<x>> \o s
    ELSE <<Head(s)>> \o Insert(x, Tail(s))

\* a run that keeps the order in which list returned the rows
Unsorted(s) == s

RECURSIVE Sort(_)
Sort(s) ==
    IF s = <<>> THEN <<>>
    ELSE Insert(s[Len(s)], Sort(SubSeq(s, 1, Len(s) - 1)))

\* one "[{days}d] {subj} - {loc} (exp {exp})" line; a row has no "path" key
ItemLine(r) ==
    [days |-> r.days_left, subj |-> Or(r.subject, "(no subject)"),
     loc |-> Or(Or(r.location, Null), "(no location)"), exp |-> r.not_after]

Min(a, b) == IF a < b THEN a ELSE b

\* a text with a line for every row
ComposeUncapped(rows, threshold) ==
    [kind |-> "items", count |-> Len(rows), threshold |-> threshold,
     items |-> [i \in 1..Len(rows) |-> ItemLine(rows[i])],
     more |-> <<>>]

\* the Slack text: the headline with len(rows), a line for each of rows[:20],
\* "...and N more" when len(rows) > 20
Compose(rows, threshold) ==
    [kind |-> "items", count |-> Len(rows), threshold |-> threshold,
     items |-> [i \in 1..Min(Len(rows), AlertCap) |-> ItemLine(rows[i])],
     more |-> IF Len(rows) > AlertCap THEN <<Len(rows) - AlertCap>> ELSE <<>>]

\* "No certificates expiring within {threshold} day(s)."
NoCertificates(threshold) ==
    [kind |-> "none", count |-> 0, threshold |-> threshold,
     items |-> <<>>, more |-> <<>>]

\* urllib's Request(url) raises ValueError("unknown url type") for a URL
\* without a scheme
GoodHook == "https://hooks.test/T"
Webhooks == {Null, "", "hooks.test/T", GoodHook}
UrlType(url) == IF url = GoodHook THEN "https" ELSE Null

\* what urlopen does: a response, or one of the exceptions send_slack catches
Outcomes == {"200", "HTTPError", "URLError", "Exception"}

\* send_slack(webhook_url, text): Request(...) is built before the try block
send_slack(url, outcome) ==
    IF UrlType(url) = Null
    THEN [raised |-> TRUE, ok |-> FALSE, detail |-> "ValueError"]
    ELSE [raised |-> FALSE, ok |-> (outcome = "200"),
          detail |-> IF outcome = "200" THEN "HTTP 200" ELSE outcome]

\* alerts_run down to rows.sort: Config.load, inv.list(source, threshold),
\* days_left ensured, rows sorted. An exception of list ends the run.
AlertStart(p, threshold, source, json_out, send, webhook) ==
    /\ pc[p] = "idle"
    /\ \E o \in ListOutcomes(db.tab, [source |-> source, days |-> Days(threshold)], clock) :
           LET opts == [NoRun EXCEPT !.threshold = threshold, !.source = source,
                                     !.json_out = json_out, !.send = send,
                                     !.webhook = webhook]
           IN  IF o.status # "ok"
               THEN /\ run' = [opts EXCEPT !.exit = o.status]
                    /\ pc' = [pc EXCEPT ![p] = "done"]
               ELSE /\ run' = [opts EXCEPT !.listed = o.rows,
                                           !.rows = Sort(Ensured(o.rows, clock))]
                    /\ pc' = [pc EXCEPT ![p] = "alert_sorted"]
    /\ UNCHANGED <<clock, db, lock, now, count, work, arg, ret, log, scan, expiry>>

\* --json prints {threshold_days, count, items} and raises typer.Exit();
\* otherwise the "No certificates" line or the table is printed
AlertOutput(p) ==
    /\ pc[p] = "alert_sorted"
    /\ IF run.json_out
       THEN /\ run' = [run EXCEPT !.shown = "json", !.exit = "0"]
            /\ pc' = [pc EXCEPT ![p] = "done"]
       ELSE /\ run' = [run EXCEPT !.shown = IF run.rows = <<>> THEN "norows" ELSE "table"]
            /\ pc' = [pc EXCEPT ![p] = "alert_shown"]
    /\ UNCHANGED <<clock, db, lock, now, count, work, arg, ret, log, scan, expiry>>

\* `if send:` exit code 2 without a webhook, else one send_slack call with the
\* no-certificates text or the composed text; its (ok, detail) is logged
AlertSend(p, outcome) ==
    /\ pc[p] = "alert_shown"
    /\ pc' = [pc EXCEPT ![p] = "done"]
    /\ IF ~run.send
       THEN run' = [run EXCEPT !.exit = "0"]
       ELSE IF run.webhook \in {Null, ""}
       THEN run' = [run EXCEPT !.exit = "2"]
       ELSE LET text == IF run.rows = <<>> THEN NoCertificates(run.threshold)
                        ELSE Compose(run.rows, run.threshold)
                res  == send_slack(run.webhook, outcome)
            IN  run' = [run EXCEPT
                          !.calls = Append(@, [url |-> run.webhook, text |-> text]),
                          !.logged = IF res.raised THEN @ ELSE Append(@, res),
                          !.exit = IF res.raised THEN res.detail ELSE "0"]
    /\ UNCHANGED <<clock, db, lock, now, count, work, arg, ret, log, scan, expiry>>

\* the inventories an alert run is started on: n rows as upsert_many writes
\* them, among them expired ones, one in another time zone, one without
\* not_after and one whose not_after is not a timestamp; optionally a row whose
\* not_after has no offset
StockExpiry(k) ==
    CASE k = 2 -> TS("east", -1)
      [] k = 5 -> NoTime
      [] k = 6 -> TS("junk", 0)
      [] OTHER -> TS("aware", (k - 3) * HalfDay)
StockRow(k) ==
    [id |-> k, fingerprint |-> "f" \o ToString(k),
     source |-> IF k % 4 = 0 THEN "aws" ELSE "filesystem",
     location |-> "/certs/" \o ToString(k),
     subject |-> IF k = 3 THEN Null ELSE "CN=" \o ToString(k),
     issuer |-> "CN=ca", not_before |-> TS("aware", 0),
     not_after |-> StockExpiry(k), sans_json |-> JsonDumps(<<>>),
     first_seen |-> utcnow_iso(0), last_seen |-> utcnow_iso(0)]
NaiveRow(k) == [StockRow(k) EXCEPT !.not_after = TS("naive", SecondsPerDay)]
Inventories ==
    {[tab |-> {StockRow(k) : k \in 1..n} \cup (IF nv THEN {NaiveRow(n + 1)} ELSE {}),
      seq |-> n + (IF nv THEN 1 ELSE 0)] : n \in 0..MaxRows, nv \in BOOLEAN}

AlertThresholds == {-1, DefaultThreshold}
AlertSources == {Null, "filesystem"}

InitAlert ==
    /\ clock = 0
    /\ db \in Inventories
    /\ lock = NoProc
    /\ pc = [p \in Procs |-> "idle"]
    /\ now = [p \in Procs |-> utcnow_iso(0)]
    /\ count = [p \in Procs |-> 0]
    /\ work = [p \in Procs |-> Empty]
    /\ arg = [p \in Procs |-> NoArg]
    /\ ret = [p \in Procs |-> NoRet]
    /\ log = NoLog
    /\ run = NoRun
    /\ scan = NoScan
    /\ expiry = NoExpiry

NextAlert ==
    \/ Tick /\ UNCHANGED <<log, run, scan, expiry>>
    \/ \E t \in AlertThresholds, source \in AlertSources, json_out \in BOOLEAN,
          send \in BOOLEAN, webhook \in Webhooks :
           AlertStart(Caller, t, source, json_out, send, webhook)
    \/ AlertOutput(Caller)
    \/ \E outcome \in Outcomes : AlertSend(Caller, outcome)
    \/ Exit(Caller) /\ run' = NoRun /\ UNCHANGED <<log, scan, expiry>>

SpecAlert == InitAlert /\ [][NextAlert]_vars

\* ------------------------------------------------------------------ scan
\* certificates: their DER encoding and the fields the discoverer reads
X509(der, subj, iss, na, sans) ==
    [der |-> der, subject |-> subj, issuer |-> iss,
     not_valid_before_utc |-> TS("aware", 0), not_valid_after_utc |-> na,
     dns_names |-> sans]
LeafOne == X509("der-1", "CN=one", "CN=ca", TS("aware", 3 * HalfDay), <<"one.test">>)
LeafTwo == X509("der-2", "CN=two", "CN=ca", TS("aware", -HalfDay), <<>>)
Certificates == {LeafOne, LeafTwo}

\* what a candidate file holds: a certificate in PEM armour, a certificate as
\* DER, bytes that are neither; or the file cannot be read
Pem(cert)  == [enc |-> "pem", der |-> cert.der, readable |-> TRUE]
Der(cert)  == [enc |-> "der", der |-> cert.der, readable |-> TRUE]
Garbage    == [enc |-> "none", der |-> "", readable |-> TRUE]
Unreadable == [enc |-> "pem", der |-> LeafOne.der, readable |-> FALSE]
Contents   == {Pem(LeafOne), Der(LeafOne), Pem(LeafTwo), Garbage, Unreadable}

\* the candidates in the order _iter_candidate_files yields them
CandidatePath(i) == "/etc/ssl/" \o ToString(i) \o ".pem"
Snapshots ==
    UNION {{[i \in 1..n |-> [path |-> CandidatePath(i), data |-> c[i]]] :
                c \in [1..n -> Contents]} : n \in 0..MaxFiles}

NoCert == [der |-> "", subject |-> "", issuer |-> "",
           not_valid_before_utc |-> NoTime, not_valid_after_utc |-> NoTime,
           dns_names |-> <<>>]
Decode(der) == CHOOSE c \in Certificates : c.der = der

\* x509.load_pem_x509_certificate / load_der_x509_certificate: the certificate,
\* or an exception (NoCert)
load_pem(data) == IF data.enc = "pem" THEN Decode(data.der) ELSE NoCert
load_der(data) == IF data.enc = "der" THEN Decode(data.der) ELSE NoCert

\* a loader without the DER fallback
LoadCertPemOnly(f) ==
    IF ~f.data.readable THEN NoCert ELSE load_pem(f.data)

\* _load_cert(path): read_bytes, PEM, on an exception DER; any exception -> None
LoadCert(f) ==
    IF ~f.data.readable THEN NoCert
    ELSE IF load_pem(f.data) # NoCert THEN load_pem(f.data)
    ELSE load_der(f.data)

\* a digest that takes in the file's path
FingerprintWithPath(cert, path) == "sha256(" \o path \o cert.der \o ")"

\* _fingerprint_sha256(cert): cert.fingerprint(SHA256).hex(), the digest of the
\* certificate's DER encoding
Fingerprint(cert, path) == "sha256(" \o cert.der \o ")"

\* _days_left(dt): int((dt - now).total_seconds() // 86400)
DiscoveredDaysLeft(dt, c) == (dt.secs - c) \div SecondsPerDay

\* the dict scan_filesystem appends for a loaded certificate
Discovered(f, cert, c) ==
    [fingerprint |-> Fingerprint(cert, f.path), source |-> "filesystem",
     path |-> f.path, location |-> Absent,
     subject |-> cert.subject, issuer |-> cert.issuer,
     not_before |-> cert.not_valid_before_utc,
     not_after |-> cert.not_valid_after_utc,
     sans |-> cert.dns_names, first_seen |-> NoTime,
     days_left |-> DiscoveredDaysLeft(cert.not_valid_after_utc, c)]

\* `orchetrust scan`: scan_filesystem(paths) starts with results = []
ScanStart(p) ==
    /\ pc[p] = "idle"
    /\ pc' = [pc EXCEPT ![p] = "scan"]
    /\ scan' = [scan EXCEPT !.pos = 0, !.results = <<>>]
    /\ UNCHANGED <<clock, db, lock, now, count, work, arg, ret, log, run, expiry>>

\* one pass of `for f in _iter_candidate_files(paths)`
ScanFile(p) ==
    /\ pc[p] = "scan"
    /\ scan.pos < Len(scan.files)
    /\ LET f    == scan.files[scan.pos + 1]
           cert == LoadCert(f)
       IN  scan' = [scan EXCEPT
                      !.pos = @ + 1,
                      !.results = IF cert = NoCert THEN @
                                  ELSE Append(@, Discovered(f, cert, clock))]
    /\ UNCHANGED <<clock, db, lock, pc, now, count, work, arg, ret, log, run, expiry>>

\* upsert_many(rows) by an invocation that has the database to itself
RECURSIVE UpsertAll(_, _, _)
UpsertAll(st, rows, ts) ==
    IF rows = <<>> THEN st
    ELSE UpsertAll(UpsertOne(st, Data(Head(rows), ts)), Tail(rows), ts)

\* a scan that writes whether or not --write-db is given
PersistAlways(write_db, st, rows, c) ==
    Commit(st, UpsertAll(st, rows, utcnow_iso(c)))

\* `if write_db:` inv.upsert_many(rows)
Persist(write_db, st, rows, c) ==
    IF write_db THEN Commit(st, UpsertAll(st, rows, utcnow_iso(c))) ELSE st

\* scan_filesystem returns; with --write-db the rows go to upsert_many; then
\* the rows are printed
ScanReturn(p, write_db) ==
    /\ pc[p] = "scan"
    /\ scan.pos = Len(scan.files)
    /\ db' = Persist(write_db, db, scan.results, clock)
    /\ db'.seq <= MaxId + MaxFiles
    /\ arg' = [arg EXCEPT ![p] = [source |-> Null, days |-> NoDays]]
    /\ Return(p, Ok(IF write_db THEN "scan-write" ELSE "scan",
                    Len(scan.results), <<>>))
    /\ UNCHANGED <<clock, lock, now, count, work, log, run, scan, expiry>>

InitScan ==
    /\ clock = 0
    /\ db = Empty
    /\ lock = NoProc
    /\ pc = [p \in Procs |-> "idle"]
    /\ now = [p \in Procs |-> utcnow_iso(0)]
    /\ count = [p \in Procs |-> 0]
    /\ work = [p \in Procs |-> Empty]
    /\ arg = [p \in Procs |-> NoArg]
    /\ ret = [p \in Procs |-> NoRet]
    /\ log = NoLog
    /\ run = NoRun
    /\ scan \in {[NoScan EXCEPT !.files = s] : s \in Snapshots}
    /\ expiry = NoExpiry

NextScan ==
    \/ Tick /\ UNCHANGED <<log, run, scan, expiry>>
    \/ ScanStart(Caller)
    \/ ScanFile(Caller)
    \/ \E write_db \in BOOLEAN : ScanReturn(Caller, write_db)
    \/ Exit(Caller) /\ UNCHANGED <<log, run, scan, expiry>>

SpecScan == InitScan /\ [][NextScan]_vars

\* ------------------------------------------------------------- days_left
\* the expiries the three computations are given: around the day boundaries,
\* before and after the clock readings
ExpirySeconds ==
    {-SecondsPerDay - 1, -SecondsPerDay, -HalfDay, -1, 0, 1, HalfDay,
     SecondsPerDay - 1, SecondsPerDay, SecondsPerDay + 1, 3 * HalfDay}
Expiries == {TS(k, x) : k \in {"aware", "east"}, x \in ExpirySeconds}

\* scan_filesystem: days = _days_left(cert.not_valid_after_utc)
DiscoverDays ==
    /\ expiry.not_after.kind = "aware"
    /\ expiry' = [expiry EXCEPT
                  !.discovered = Gave(DL(DiscoveredDaysLeft(expiry.not_after, clock)), clock)]
    /\ UNCHANGED <<clock, db, lock, pc, now, count, work, arg, ret, log, run, scan>>

\* list(expiring_within_days): delta_days of a row with this not_after
ListDays ==
    /\ ParseOk(expiry.not_after) /\ expiry.not_after.kind # "naive"
    /\ expiry' = [expiry EXCEPT !.listed = Gave(DL(DaysLeft(expiry.not_after, clock)), clock)]
    /\ UNCHANGED <<clock, db, lock, pc, now, count, work, arg, ret, log, run, scan>>

\* alerts_run: r["days_left"] = iso_to_days_left(r.get("not_after"))
EnsureDays ==
    /\ expiry' = [expiry EXCEPT !.ensured = Gave(iso_to_days_left(expiry.not_after, clock), clock)]
    /\ UNCHANGED <<clock, db, lock, pc, now, count, work, arg, ret, log, run, scan>>

InitDays ==
    /\ clock = 0
    /\ db = Empty
    /\ lock = NoProc
    /\ pc = [p \in Procs |-> "idle"]
    /\ now = [p \in Procs |-> utcnow_iso(0)]
    /\ count = [p \in Procs |-> 0]
    /\ work = [p \in Procs |-> Empty]
    /\ arg = [p \in Procs |-> NoArg]
    /\ ret = [p \in Procs |-> NoRet]
    /\ log = NoLog
    /\ run = NoRun
    /\ scan = NoScan
    /\ expiry \in {[NoExpiry EXCEPT !.not_after = t] : t \in Expiries}

NextDays ==
    \/ Tick /\ UNCHANGED <<log, run, scan, expiry>>
    \/ DiscoverDays
    \/ ListDays
    \/ EnsureDays

SpecDays == InitDays /\ [][NextDays]_vars

\* --------------------------------------- the commands, one after the other
\* scan [--write-db], inventory list, inventory purge, alerts run [--json]
\* [--send-slack] on the files of one snapshot
CliSnapshots ==
    {s \in Snapshots :
        \A i \in 1..Len(s) : s[i].data \in {Pem(LeafOne), Pem(LeafTwo), Garbage}}

InitCli ==
    /\ clock = 0
    /\ db = Empty
    /\ lock = NoProc
    /\ pc = [p \in Procs |-> "idle"]
    /\ now = [p \in Procs |-> utcnow_iso(0)]
    /\ count = [p \in Procs |-> 0]
    /\ work = [p \in Procs |-> Empty]
    /\ arg = [p \in Procs |-> NoArg]
    /\ ret = [p \in Procs |-> NoRet]
    /\ log = NoLog
    /\ run = NoRun
    /\ scan \in {[NoScan EXCEPT !.files = s] : s \in CliSnapshots}
    /\ expiry = NoExpiry

NextCli ==
    \/ Tick /\ UNCHANGED <<log, run, scan, expiry>>
    \/ ScanStart(Caller)
    \/ ScanFile(Caller)
    \/ \E write_db \in BOOLEAN : ScanReturn(Caller, write_db)
    \/ \E d \in {NoDays, Days(0)} :
           List(Caller, Null, d) /\ UNCHANGED <<log, run, scan, expiry>>
    \/ Purge(Caller, "filesystem") /\ UNCHANGED <<log, run, scan, expiry>>
    \/ \E json_out \in BOOLEAN, send \in BOOLEAN :
           AlertStart(Caller, DefaultThreshold, Null, json_out, send, GoodHook)
    \/ AlertOutput(Caller)
    \/ \E outcome \in {"200", "URLError"} : AlertSend(Caller, outcome)
    \/ Exit(Caller) /\ run' = NoRun /\ UNCHANGED <<log, scan, expiry>>

SpecCli == InitCli /\ [][NextCli]_vars

\* ===================================================================== claims
SameTriple(x, y) ==
    x.fingerprint = y.fingerprint /\ x.source = y.source /\ x.location = y.location

\* C1: after any sequence of upsert_many and purge calls the inventory holds at
\* most one row for each (fingerprint, source, location) triple.
UniqueTriple == \A x, y \in db.tab : SameTriple(x, y) => x = y

\* a row of a record without location that a later call matched again
UniqueTripleWitness ==
    \E x \in db.tab : x.location = "" /\ x.first_seen.secs < x.last_seen.secs

\* C3: an upsert_many batch is atomic. The committed table changes only when a
\* call returns (to all that its loop wrote) or a purge runs; a call that raises
\* at record k leaves the table as it was, and what a reader lists is the
\* committed table.
Core(x) ==
    [id |-> x.id, fingerprint |-> x.fingerprint, source |-> x.source,
     location |-> x.location, subject |-> x.subject, issuer |-> x.issuer,
     not_before |-> x.not_before, not_after |-> x.not_after,
     sans_json |-> x.sans_json, first_seen |-> x.first_seen,
     last_seen |-> x.last_seen]
Range(s) == {s[i] : i \in 1..Len(s)}
Ends(p, op) == pc[p] # "done" /\ pc'[p] = "done" /\ ret'[p].op = op

AtomicBatch ==
    [][/\ \A p \in Procs :
            /\ Ends(p, "upsert") /\ ret'[p].status # "ok" => db' = db
            /\ Ends(p, "upsert") /\ ret'[p].status = "ok" =>
                   db' = (IF lock = p THEN work[p] ELSE db)
            /\ Ends(p, "list") => {Core(x) : x \in Range(ret'[p].rows)} = db.tab
       /\ db' # db => \E p \in Procs :
                          \/ Ends(p, "upsert") /\ ret'[p].status = "ok"
                          \/ Ends(p, "purge")]_vars

\* a call has raised after its loop had written rows
AtomicBatchWitness ==
    \E p \in Procs :
        /\ pc[p] = "done" /\ ret[p].op = "upsert"
        /\ ret[p].status = "KeyError" /\ ret[p].n >= 1

\* C4: first_seen is immutable: a row keeps the first_seen it was inserted with
\* for as long as it exists, whatever the records of later calls carry.
FirstSeenImmutable ==
    [][\A x \in db.tab, y \in db'.tab : x.id = y.id => y.first_seen = x.first_seen]_vars

\* a row matched again at a later time by a record that carries a first_seen key
FirstSeenImmutableWitness ==
    \E x \in db.tab :
        /\ x.subject = CertA2.subject
        /\ x.first_seen.secs < x.last_seen.secs

\* C5: every row of every reachable state has first_seen <= last_seen.
FirstSeenNotAfterLastSeen ==
    \A x \in db.tab : x.first_seen.secs <= x.last_seen.secs

\* C2: upsert_many is idempotent: a second call with the input of the call
\* that has just returned leaves the same rows, with the same row count and the
\* same values in every column except last_seen, which does not go back.
StripLastSeen(tab) == {[x EXCEPT !.last_seen = NoTime] : x \in tab}

Idempotent ==
    [][Ends(Caller, "upsert") /\ ret'[Caller].status = "ok" /\ log.again =>
           /\ StripLastSeen(db'.tab) = StripLastSeen(db.tab)
           /\ Cardinality(db'.tab) = Cardinality(db.tab)
           /\ \A x \in db.tab, y \in db'.tab :
                  x.id = y.id => x.last_seen.secs <= y.last_seen.secs]_vars

\* the second call has returned and has advanced a last_seen
IdempotentWitness ==
    /\ pc[Caller] = "done" /\ ret[Caller].op = "upsert" /\ ret[Caller].status = "ok"
    /\ log.again /\ log.rows # <<>>
    /\ \E x \in db.tab : x.first_seen.secs < x.last_seen.secs /\ x.last_seen.secs = clock

\* C6: a returned call has, for each of its records, updated the row of the
\* record's identity (subject, issuer, not_before, not_after, sans from the
\* record, last_seen = now, first_seen and id kept) or inserted one with
\* first_seen = last_seen = now; of several records of one identity the last
\* one decides the values.
Triple(x) == <<x.fingerprint, x.source, x.location>>
Ident(r)  == <<r.fingerprint, r.source, Location(r)>>
LastOf(rows, i) ==
    rows[CHOOSE j \in i..Len(rows) :
            /\ Ident(rows[j]) = Ident(rows[i])
            /\ \A k \in (j + 1)..Len(rows) : Ident(rows[k]) # Ident(rows[i])]

UpsertEffect ==
    [][Ends(Caller, "upsert") /\ ret'[Caller].status = "ok" =>
           \A i \in 1..Len(log.rows) :
               LET r   == LastOf(log.rows, i)
                   old == {x \in db.tab : Triple(x) = Ident(r)}
                   new == {y \in db'.tab : Triple(y) = Ident(r)}
               IN  /\ Cardinality(new) = 1
                   /\ \A y \in new :
                          /\ y.subject = Get(r.subject)
                          /\ y.issuer = Get(r.issuer)
                          /\ y.not_before = r.not_before
                          /\ y.not_after = r.not_after
                          /\ y.sans_json.json = (IF r.sans = NoSans THEN <<>> ELSE r.sans)
                          /\ y.last_seen = now[Caller]
                          /\ IF old = {}
                             THEN y.first_seen = now[Caller]
                             ELSE \A x \in old : y.id = x.id /\ y.first_seen = x.first_seen]_vars

\* a call given two records of one identity with different values has returned
UpsertEffectWitness ==
    /\ pc[Caller] = "done" /\ ret[Caller].op = "upsert" /\ ret[Caller].status = "ok"
    /\ Len(log.rows) = 2
    /\ Ident(log.rows[1]) = Ident(log.rows[2])
    /\ log.rows[1].issuer # log.rows[2].issuer

\* C7: purge(source=s) removes exactly the rows whose source equals s, for every
\* string s, and returns their number; purge() removes all rows and returns the
\* row count before the call.
PurgeScoping ==
    [][\A src \in SourceArgs :
           Ends(Caller, "purge") /\ arg'[Caller].source = src =>
               LET gone == IF src = Null THEN db.tab
                           ELSE {x \in db.tab : x.source = src}
               IN  /\ db'.tab = db.tab \ gone
                   /\ ret'[Caller].n = Cardinality(gone)]_vars

\* C8: for every inventory, list(expiring_within_days=t) returns exactly the
\* rows (of the source asked for, when one is given) whose remaining days at the
\* call are <= t, each with days_left set to that number.
Instant(ts) == ts.kind \in {"aware", "east", "naive"}
Remaining(ts, c) ==
    CHOOSE d \in -64..64 :
        d * SecondsPerDay <= ts.secs - c /\ ts.secs - c < (d + 1) * SecondsPerDay

ExpiryFilter ==
    [][\A src \in SourceArgs, t \in Thresholds :
           Ends(Caller, "list") /\ arg'[Caller] = [source |-> src, days |-> Days(t)] =>
               /\ ret'[Caller].status = "ok"
               /\ {Core(x) : x \in Range(ret'[Caller].rows)} =
                      {x \in db.tab : /\ src \notin {Null, ""} => x.source = src
                                      /\ Instant(x.not_after)
                                      /\ Remaining(x.not_after, clock) <= t}
               /\ \A x \in Range(ret'[Caller].rows) :
                      x.days_left = DL(Remaining(x.not_after, clock))]_vars

\* C9: no stored not_after (absent, empty, not ISO-8601, ISO-8601 without a
\* timezone) makes list raise, with or without expiring_within_days; the alert
\* run starts with that list call.
MalformedExpiryTolerated ==
    \A p \in Procs : pc[p] = "done" /\ ret[p].op = "list" => ret[p].status = "ok"

\* C10: upsert_many never removes a row and never changes a row's triple; a
\* record gets a row of its own triple, and the rows of other triples (the old
\* row of a rotated certificate among them) keep every column.
NoLossNoRekey ==
    [][~Ends(Caller, "purge") =>
           /\ \A x \in db.tab : \E y \in db'.tab :
                  /\ y.id = x.id /\ Triple(y) = Triple(x)
                  /\ (\A i \in 1..Len(log.rows) : Ident(log.rows[i]) # Triple(x)) => y = x
           /\ Ends(Caller, "upsert") /\ ret'[Caller].status = "ok" =>
                  \A i \in 1..Len(log.rows) :
                      \E y \in db'.tab : Triple(y) = Ident(log.rows[i])]_vars

\* the certificate at a path was replaced: both rows are there, the old one
\* last seen before the new one was first seen
NoLossNoRekeyWitness ==
    \E x, y \in db.tab :
        /\ x.fingerprint # y.fingerprint
        /\ x.source = y.source /\ x.location = y.location
        /\ x.last_seen.secs < y.first_seen.secs

\* C11: a successful upsert_many returns the number of records it was given,
\* also when records match stored rows or repeat an identity of the batch.
ReturnsRecordCount ==
    [][Ends(Caller, "upsert") /\ ret'[Caller].status = "ok" =>
           ret'[Caller].n = Len(log.rows)]_vars

\* a call has returned 2 for two records that left the table at one row
ReturnsRecordCountWitness ==
    /\ pc[Caller] = "done" /\ ret[Caller].op = "upsert" /\ ret[Caller].status = "ok"
    /\ ret[Caller].n = 2 /\ Len(log.rows) = 2
    /\ Cardinality(db.tab) = 1

\* C12: list without an expiry filter returns the rows (all, or those of the
\* source asked for) soonest-expiring first: each row once, and of two rows
\* whose not_after is a timezone-aware timestamp the one that expires earlier
\* comes first.
Aware(ts) == ts.kind \in {"aware", "east"}

SoonestFirst ==
    [][\A src \in SourceArgs :
           Ends(Caller, "list") /\ arg'[Caller] = [source |-> src, days |-> NoDays] =>
               LET out == ret'[Caller].rows
               IN  /\ ret'[Caller].status = "ok"
                   /\ {Core(x) : x \in Range(out)} = Selected(db.tab, src)
                   /\ Len(out) = Cardinality(Selected(db.tab, src))
                   /\ \A i, j \in 1..Len(out) :
                          i < j /\ Aware(out[i].not_after) /\ Aware(out[j].not_after)
                              => out[i].not_after.secs <= out[j].not_after.secs]_vars

\* C13: the alert run orders its rows ascending by (days_left, not_after): the
\* sorted rows are the rows list returned, each once, every row's pair is <= the
\* next row's, and a row with unknown days_left has no row with a known
\* days_left behind it.
Ids(s) == [i \in 1..Len(s) |-> s[i].id]

ComposerOrder ==
    pc[Caller] = "alert_sorted" =>
        /\ Len(run.rows) = Len(run.listed)
        /\ {x.id : x \in Range(run.rows)} = {x.id : x \in Range(run.listed)}
        /\ \A i \in 1..Len(run.rows) : \E j \in 1..Len(run.listed) :
               Core(run.rows[i]) = Core(run.listed[j])
        /\ \A i, j \in 1..Len(run.rows) : i < j =>
               LET x == run.rows[i]
                   y == run.rows[j]
               IN  /\ ~x.days_left.known => ~y.days_left.known
                   /\ x.days_left.known /\ y.days_left.known =>
                          \/ x.days_left.v < y.days_left.v
                          \/ /\ x.days_left.v = y.days_left.v
                             /\ TextLeq(x.not_after, y.not_after)

\* the sort has moved a row: list returned the rows in another order
ComposerOrderWitness ==
    /\ pc[Caller] = "alert_sorted"
    /\ Len(run.rows) >= 3
    /\ Ids(run.rows) # Ids(run.listed)

\* C14: the message composed for n >= 1 matching rows reports the count n, has
\* exactly min(n, 20) item lines, which are the first min(n, 20) rows of the
\* sorted order, and carries one "...and N more" notice, N = n - 20, if and only
\* if n > 20.
Truncation ==
    pc[Caller] = "done" /\ run.send /\ run.shown = "table" /\ run.webhook = GoodHook =>
        LET n == Len(run.rows)
            k == IF n <= 20 THEN n ELSE 20
        IN  /\ n >= 1
            /\ Len(run.calls) = 1
            /\ LET text == run.calls[1].text
               IN  /\ text.kind = "items"
                   /\ text.count = n
                   /\ Len(text.items) = k
                   /\ \A i \in 1..k :
                          /\ text.items[i].days = run.rows[i].days_left
                          /\ text.items[i].exp = run.rows[i].not_after
                          /\ text.items[i].loc = run.rows[i].location
                   /\ (n > 20 => text.more = <<n - 20>>)
                   /\ (n <= 20 => text.more = <<>>)

\* a message for more than 20 rows has been handed to the transport
TruncationWitness ==
    /\ pc[Caller] = "done" /\ Len(run.calls) = 1
    /\ Len(run.rows) > 20
    /\ run.calls[1].text.more # <<>>

\* C15: when no row matches the threshold the alert run ends as a success with
\* a count of zero: nothing is raised, the exit status is 0, the "no rows"
\* outcome is what is shown, and a run that sends (webhook configured, no
\* --json) hands the transport the no-certificates message.
Matching(tab, source, t, c) ==
    {x \in Selected(tab, source) : x.not_after.kind \in {"aware", "east"}
                                    /\ Remaining(x.not_after, c) <= t}

NoRowsIsSuccess ==
    [][/\ pc[Caller] = "idle" /\ pc'[Caller] # "idle"
          /\ Matching(db.tab, run'.source, run'.threshold, clock) = {}
              => pc'[Caller] = "alert_sorted" /\ run'.rows = <<>>
       /\ pc[Caller] \in {"alert_sorted", "alert_shown"} /\ pc'[Caller] = "done"
          /\ run.rows = <<>> /\ ~(run.send /\ run.webhook \in {Null, ""})
              => /\ run'.exit = "0"
                 /\ run'.shown \in {"json", "norows"}
                 /\ run.send /\ ~run.json_out =>
                        /\ Len(run'.calls) = 1
                        /\ run'.calls[1].text.kind = "none"
                        /\ run'.calls[1].text.count = 0]_vars

\* C17: a delivery failure never raises past the alert run and is not retried:
\* whatever the configured webhook URL and whatever the transport does,
\* send_slack returns its (ok, detail) pair, which the run logs, and a run calls
\* send_slack at most once.
DeliveryNeverRaises ==
    pc[Caller] = "done" =>
        /\ Len(run.calls) <= 1
        /\ Len(run.calls) = 1 =>
               /\ Len(run.logged) = 1
               /\ run.logged[1].ok \in BOOLEAN
               /\ run.exit = "0"

\* C16: a failing file never aborts discovery: scan_filesystem returns one
\* record for each candidate that reads and parses (PEM or DER), with source
\* "filesystem" and the candidate's path, and none for a candidate that does
\* not, wherever the failing candidates are in the traversal.
Parses(f) == f.data.readable /\ f.data.enc \in {"pem", "der"}
Scanned == pc[Caller] = "done" /\ ret[Caller].op \in {"scan", "scan-write"}

RecordOf(f) == {r \in Range(scan.results) : r.path = f.path}

FingerprintOfBytes ==
    Scanned =>
        \A f, g \in Range(scan.files) : \A r \in RecordOf(f), q \in RecordOf(g) :
            (f.data = g.data) <=> (r.fingerprint = q.fingerprint)

\* C18 amended: two scanned files get the same fingerprint if and only if they
\* hold the same certificate, whatever their paths and whether the file is PEM
\* or DER.
FingerprintOfCertificate ==
    Scanned =>
        \A f, g \in Range(scan.files) : \A r \in RecordOf(f), q \in RecordOf(g) :
            (f.data.der = g.data.der) <=> (r.fingerprint = q.fingerprint)

\* one certificate scanned at two paths, as PEM and as DER, and another
\* certificate at a third
FingerprintOfCertificateWitness ==
    /\ Scanned
    /\ Len(scan.results) = 3
    /\ scan.files[1].data = Pem(LeafOne)
    /\ scan.files[2].data = Der(LeafOne)
    /\ scan.results[1].fingerprint = scan.results[2].fingerprint
    /\ scan.results[1].fingerprint # scan.results[3].fingerprint

\* C19: days_left is the floor of (not_after - now) / 86400 seconds: half a
\* day past expiry gives -1, less than a day to go gives 0; the discoverer, the
\* store's expiry filter and the composer's fallback give that same number for
\* the same now and not_after.
Given == {expiry.discovered, expiry.listed, expiry.ensured}

DaysLeftIsFloor ==
    /\ \A g \in Given : g.done =>
           /\ g.known
           /\ g.v * 86400 <= expiry.not_after.secs - g.at
           /\ expiry.not_after.secs - g.at < (g.v + 1) * 86400
           /\ (expiry.not_after.secs - g.at = -43200 => g.v = -1)
           /\ (expiry.not_after.secs - g.at \in 0..86399 => g.v = 0)
    /\ \A g, h \in Given : g.done /\ h.done /\ g.at = h.at => g.v = h.v

\* all three have computed -1 for an expiry half a day in the past
DaysLeftIsFloorWitness ==
    /\ expiry.not_after = TS("aware", 0)
    /\ \A g \in Given : g.done /\ g.at = HalfDay /\ g.v = -1

\* C20: the inventory changes only through upsert_many and purge: a list call,
\* every step of an alert run (sending or not) and a scan without --write-db
\* leave the rows, all their columns and last_seen as they were.
StoreFrame ==
    [][/\ db' # db =>
              \/ Ends(Caller, "scan-write") \/ Ends(Caller, "upsert")
              \/ Ends(Caller, "purge")
       /\ Ends(Caller, "list") \/ Ends(Caller, "scan") => db' = db
       /\ run' # run \/ scan' # scan => db' = db]_vars

\* a scan without --write-db has returned records at a time when writing them
\* would have advanced last_seen, after an alert was sent on the stored rows
StoreFrameWitness ==
    /\ pc[Caller] = "done" /\ ret[Caller].op = "scan"
    /\ scan.results # <<>>
    /\ db.tab # {}
    /\ \A x \in db.tab : x.last_seen.secs < clock

\* C21: in an alert run the send comes after the output and is guarded by it:
\* with --json the run ends after printing the payload and send_slack is never
\* called, also with --send-slack; with --send-slack and no webhook configured
\* the run ends with exit code 2 and send_slack is never called; every other
\* run that is asked to send calls send_slack exactly once.
SendAfterOutput ==
    [][/\ Len(run'.calls) > Len(run.calls) =>
              /\ run.shown \in {"table", "norows"}
              /\ ~run.json_out /\ run.send /\ run.webhook \notin {Null, ""}
       /\ pc[Caller] # "done" /\ pc'[Caller] = "done" =>
              /\ run'.json_out =>
                     run'.shown = "json" /\ run'.exit = "0" /\ run'.calls = <<>>
              /\ ~run'.json_out /\ run'.send /\ run'.webhook \in {Null, ""} =>
                     run'.exit = "2" /\ run'.calls = <<>>
              /\ ~run'.json_out /\ run'.send /\ run'.webhook \notin {Null, ""} =>
                     Len(run'.calls) = 1
              /\ ~run'.send => run'.calls = <<>>]_vars

====
